---- MODULE Spec2Model ----
(***************************************************************************)
(* Filament Hause Agent (src/src/index.ts): the printer-side MQTT session, *)
(* the partial-update merge of device reports into currentStatus, and the  *)
(* timer-driven cloud reconciliation loop that uploads the snapshot and    *)
(* relays polled commands to the printer.                                  *)
(*                                                                         *)
(* Node.js runs every handler to completion; an action below is one        *)
(* handler, or the part of an async function between two awaits.           *)
(***************************************************************************)
EXTENDS Integers, Sequences, FiniteSets, TLC

VARIABLES
    alive,          \* "loaded" before main(), "running", "exited" after process.exit,
                    \* "crashed" after an uncaught exception or rejection
    conn,           \* mqtt client: "none" | "connecting" | "open" | "backoff"
    connected,      \* mqttClient?.connected
    linkErr,        \* an 'error' event was emitted for the current attempt/link
    sub,            \* subscribe callback of this connection: "none"|"pending"|"ok"|"failed"
    subPushes,      \* pushall requests published by this connection's subscribe callback
    currentStatus,  \* the PrinterStatus snapshot
    pre,            \* snapshot before the latest inbound message was handled
    payload,        \* the latest inbound message
    applied,        \* number of inbound messages handled
    cycles,         \* the sync cycles started by the sync timer
    published,      \* messages published to device/<serial>/request, in order
    dropped         \* command occurrences executeCommand refused (not connected)

vars == <<alive, conn, connected, linkErr, sub, subPushes, currentStatus,
          pre, payload, applied, cycles, published, dropped>>

----------------------------------------------------------------------------
(* Bounds of the model *)

\* numeric report values range over 0..MaxNum
MaxNum == 1
\* number of times one report is applied in SpecMerge
MaxApply == 2
\* number of inbound messages handled in Spec
MaxMsgs == 2
\* number of sync-timer ticks (cycles) in Spec
MaxCycles == 2
\* length of the log of published device messages
MaxPublished == 2
\* number of commands in one poll response
MaxCmdsPerPoll == 2

----------------------------------------------------------------------------
(* JavaScript values *)

\* a JSON string value that may be absent; str is a sequence of characters
Undef == [undef |-> TRUE, str |-> <<>>]
Str(s) == [undef |-> FALSE, str |-> s]

\* undefined and "" are the falsy values of a string-valued property
Falsy(v) == v.undef \/ v.str = <<>>

\* (v || d)
OrDefault(v, d) == IF Falsy(v) THEN d ELSE v.str

\* a JavaScript number produced by parseInt: an integer or NaN
Num(n) == [nan |-> FALSE, n |-> n]
NaN == [nan |-> TRUE, n |-> 0]

DigitChars == <<"0", "1", "2", "3", "4", "5", "6", "7", "8", "9">>
IsDigit(c) == \E i \in 1..10 : DigitChars[i] = c
DigitVal(c) == (CHOOSE i \in 1..10 : DigitChars[i] = c) - 1
IsWhite(c) == c \in {" ", "\t", "\n"}

RECURSIVE TrimStart(_)
TrimStart(s) ==
    IF s # <<>> /\ IsWhite(Head(s)) THEN TrimStart(Tail(s)) ELSE s

RECURSIVE DigitPrefix(_)
DigitPrefix(s) ==
    IF s # <<>> /\ IsDigit(Head(s)) THEN <<Head(s)>> \o DigitPrefix(Tail(s)) ELSE <<>>

RECURSIVE DecimalValue(_, _)
DecimalValue(ds, acc) ==
    IF ds = <<>> THEN acc ELSE DecimalValue(Tail(ds), acc * 10 + DigitVal(Head(ds)))

\* parseInt(s, 10): leading white space, an optional sign, then the longest
\* prefix of decimal digits; NaN when that prefix is empty
parseInt(s) ==
    LET t == TrimStart(s)
        signed == t # <<>> /\ Head(t) \in {"-", "+"}
        neg == t # <<>> /\ Head(t) = "-"
        ds == DigitPrefix(IF signed THEN Tail(t) ELSE t)
    IN  IF ds = <<>> THEN NaN
        ELSE Num(IF neg THEN 0 - DecimalValue(ds, 0) ELSE DecimalValue(ds, 0))

----------------------------------------------------------------------------
(* The status snapshot *)

\* the keys of the report's print object that parseStatus reads
ScalarKeys == {"gcode_state", "mc_percent", "mc_remaining_time", "layer_num",
               "total_layer_num", "nozzle_temper", "nozzle_target_temper",
               "bed_temper", "bed_target_temper", "chamber_temper", "total_weight"}
PrintKeys == ScalarKeys \cup {"ams"}

\* the snapshot field each key feeds
FieldOf(k) ==
    CASE k = "gcode_state" -> "gcodeState"
      [] k = "mc_percent" -> "printProgress"
      [] k = "mc_remaining_time" -> "printTimeRemaining"
      [] k = "layer_num" -> "currentLayer"
      [] k = "total_layer_num" -> "totalLayers"
      [] k = "nozzle_temper" -> "nozzleTemp"
      [] k = "nozzle_target_temper" -> "nozzleTargetTemp"
      [] k = "bed_temper" -> "bedTemp"
      [] k = "bed_target_temper" -> "bedTargetTemp"
      [] k = "chamber_temper" -> "chamberTemp"
      [] k = "total_weight" -> "filamentUsed"
      [] k = "ams" -> "ams"

\* let currentStatus: PrinterStatus = {...}
InitialStatus ==
    [online |-> FALSE, gcodeState |-> "IDLE", printProgress |-> 0,
     printTimeRemaining |-> 0, currentLayer |-> 0, totalLayers |-> 0,
     nozzleTemp |-> 0, nozzleTargetTemp |-> 0, bedTemp |-> 0,
     bedTargetTemp |-> 0, chamberTemp |-> 0, filamentUsed |-> 0, ams |-> <<>>]

NonOnlineFields == {FieldOf(k) : k \in PrintKeys}

\* the snapshot without its online flag
NonOnline(st) == [f \in NonOnlineFields |-> st[f]]

----------------------------------------------------------------------------
(* parseStatus *)

Has(print, k) == k \in DOMAIN print

\* as ParseTray, numbering the slots within their unit only
ParseTrayLocalSlot(tray, unitIndex, slotIndex) ==
    [slot |-> slotIndex,
     material |-> IF tray.tray_type = "" THEN "Unknown" ELSE tray.tray_type,
     color |-> IF tray.tray_color = "" THEN "000000" ELSE tray.tray_color,
     remaining |-> parseInt(OrDefault(tray.remain, <<"0">>))]

\* one tray of a unit: (trays || []).map((tray, slotIndex) => ({...}))
ParseTray(tray, unitIndex, slotIndex) ==
    [slot |-> unitIndex * 4 + slotIndex,
     material |-> IF tray.tray_type = "" THEN "Unknown" ELSE tray.tray_type,
     color |-> IF tray.tray_color = "" THEN "000000" ELSE tray.tray_color,
     remaining |-> parseInt(OrDefault(tray.remain, <<"0">>))]

\* one unit: amsUnits.map((unit, unitIndex) => {...}); indices are 0-based
ParseUnit(unit, unitIndex) ==
    [id |-> unitIndex,
     humidity |-> parseInt(OrDefault(unit.humidity, <<"0">>)),
     slots |-> [s \in 1..Len(unit.tray) |-> ParseTray(unit.tray[s], unitIndex, s - 1)]]

\* as ParseAms, merging unit by unit: prior units beyond the new array stay
ParseAmsMerges(old, print) ==
    IF Has(print, "ams") /\ print["ams"].tag = "array"
    THEN [u \in 1..Len(print["ams"].units) |-> ParseUnit(print["ams"].units[u], u - 1)]
         \o SubSeq(old, Len(print["ams"].units) + 1, Len(old))
    ELSE old

\* print.ams is {tag: "noarray"} (an object without an ams array),
\* {tag: "nonarray"} (ams.ams is truthy but has no map method, so the map
\* call throws before the assignment) or {tag: "array", units: [...]}
ParseAms(old, print) ==
    IF Has(print, "ams") /\ print["ams"].tag = "array"
    THEN [u \in 1..Len(print["ams"].units) |-> ParseUnit(print["ams"].units[u], u - 1)]
    ELSE old

\* as IfDefined, adding the reported value to the stored one
IfDefinedAccumulates(print, k, old) == IF Has(print, k) THEN old + print[k] ELSE old

\* as GcodeState, with a mapping of unrecognized strings to UNKNOWN
GcodeStateMapped(print, old) ==
    IF Has(print, "gcode_state") /\ print["gcode_state"] # ""
    THEN IF print["gcode_state"] \in {"IDLE", "RUNNING", "PAUSED", "FAILED", "FINISHED"}
         THEN print["gcode_state"] ELSE "UNKNOWN"
    ELSE old

\* if (print.gcode_state) currentStatus.gcodeState = print.gcode_state
GcodeState(print, old) ==
    IF Has(print, "gcode_state") /\ print["gcode_state"] # ""
    THEN print["gcode_state"] ELSE old

\* as IfDefined, with the report taken for a full snapshot: an absent key
\* resets the field
IfDefinedOrReset(print, k, old) == IF Has(print, k) THEN print[k] ELSE 0

\* a scalar field guarded by (print.key !== undefined)
IfDefined(print, k, old) == IF Has(print, k) THEN print[k] ELSE old

\* parseStatus(data) for a data object that has a print sub-object; when the
\* AMS map throws, the scalar assignments have been made and ams has not
ParseStatus(st, print) ==
    [online |-> st.online,
     gcodeState |-> GcodeState(print, st.gcodeState),
     printProgress |-> IfDefined(print, "mc_percent", st.printProgress),
     printTimeRemaining |-> IF Has(print, "mc_remaining_time")
                            THEN print["mc_remaining_time"] * 60
                            ELSE st.printTimeRemaining,
     currentLayer |-> IfDefined(print, "layer_num", st.currentLayer),
     totalLayers |-> IfDefined(print, "total_layer_num", st.totalLayers),
     nozzleTemp |-> IfDefined(print, "nozzle_temper", st.nozzleTemp),
     nozzleTargetTemp |-> IfDefined(print, "nozzle_target_temper", st.nozzleTargetTemp),
     bedTemp |-> IfDefined(print, "bed_temper", st.bedTemp),
     bedTargetTemp |-> IfDefined(print, "bed_target_temper", st.bedTargetTemp),
     chamberTemp |-> IfDefined(print, "chamber_temper", st.chamberTemp),
     filamentUsed |-> IfDefined(print, "total_weight", st.filamentUsed),
     ams |-> ParseAms(st.ams, print)]

\* an inbound payload: undecodable bytes, JSON without a print object, or a
\* report with a print object
Garbage == [kind |-> "garbage", print |-> <<>>]
NoPrint == [kind |-> "noprint", print |-> <<>>]
Report(print) == [kind |-> "report", print |-> print]
NoPayload == [kind |-> "none", print |-> <<>>]

\* as MessageHandler, giving up control before the AMS part of the merge
MessageHandlerPartial(st, p) ==
    IF p.kind = "report" THEN [ParseStatus(st, p.print) EXCEPT !.ams = st.ams] ELSE st

\* mqttClient.on("message", ...): JSON.parse and parseStatus inside try/catch
MessageHandler(st, p) ==
    IF p.kind = "report" THEN ParseStatus(st, p.print) ELSE st

----------------------------------------------------------------------------
(* Publishing to the device *)

\* where a published message came from: the subscribe callback, the 60 s
\* timer, or the command at position pos of the poll response of cycle c
Origin(src, c, pos) == [src |-> src, cycle |-> c, pos |-> pos]

Entry(command, origin) ==
    [command |-> command, src |-> origin.src, cycle |-> origin.cycle, pos |-> origin.pos]

\* as RequestFullStatus, with the connection test inverted
RequestFullStatusInverted(pub, isConnected, origin) ==
    IF isConnected THEN pub ELSE Append(pub, Entry("pushall", origin))

\* requestFullStatus(): if (!mqttClient?.connected) return; publish pushall
RequestFullStatus(pub, isConnected, origin) ==
    IF ~isConnected THEN pub ELSE Append(pub, Entry("pushall", origin))

\* the command kinds of the switch in executeCommand, and one that is not
CommandKinds == {"pause", "resume", "stop", "refresh", "home"}

\* as ExecuteCommand, without the connection test
ExecuteCommandUnguarded(pub, isConnected, type, origin) ==
    CASE type \in {"pause", "resume", "stop"} -> Append(pub, Entry(type, origin))
      [] type = "refresh" -> Append(pub, Entry("pushall", origin))
      [] OTHER -> pub

\* as ExecuteCommand, with a default branch that forwards the kind as it is
ExecuteCommandForwardsUnknown(pub, isConnected, type, origin) ==
    IF ~isConnected THEN pub
    ELSE CASE type = "refresh" -> Append(pub, Entry("pushall", origin))
           [] OTHER -> Append(pub, Entry(type, origin))

\* executeCommand(cmd)
ExecuteCommand(pub, isConnected, type, origin) ==
    IF ~isConnected THEN pub
    ELSE CASE type \in {"pause", "resume", "stop"} -> Append(pub, Entry(type, origin))
           [] type = "refresh" -> RequestFullStatus(pub, isConnected, origin)
           [] OTHER -> pub

\* as ExecuteAll, with every command attempted a second time
RECURSIVE ExecuteAllRetry(_, _, _, _, _)
ExecuteAllRetry(pub, isConnected, cmds, c, i) ==
    IF i > Len(cmds) THEN pub
    ELSE ExecuteAllRetry(
             ExecuteCommand(ExecuteCommand(pub, isConnected, cmds[i], Origin("command", c, i)),
                            isConnected, cmds[i], Origin("command", c, i)),
             isConnected, cmds, c, i + 1)

\* as ExecuteAll, walking the list from its end
RECURSIVE ExecuteAllReversed(_, _, _, _, _)
ExecuteAllReversed(pub, isConnected, cmds, c, i) ==
    IF i > Len(cmds) THEN pub
    ELSE ExecuteCommand(ExecuteAllReversed(pub, isConnected, cmds, c, i + 1),
                        isConnected, cmds[i], Origin("command", c, i))

\* as ExecuteAll, handing every command to the broker whatever the link state
RECURSIVE ExecuteAllIgnoresLink(_, _, _, _, _)
ExecuteAllIgnoresLink(pub, isConnected, cmds, c, i) ==
    IF i > Len(cmds) THEN pub
    ELSE ExecuteAllIgnoresLink(ExecuteCommand(pub, TRUE, cmds[i], Origin("command", c, i)),
                               isConnected, cmds, c, i + 1)

\* for (const cmd of data.commands) executeCommand(cmd), from position i on
RECURSIVE ExecuteAll(_, _, _, _, _)
ExecuteAll(pub, isConnected, cmds, c, i) ==
    IF i > Len(cmds) THEN pub
    ELSE ExecuteAll(ExecuteCommand(pub, isConnected, cmds[i], Origin("command", c, i)),
                    isConnected, cmds, c, i + 1)

----------------------------------------------------------------------------
(* Cloud requests *)

\* JSON.stringify of a number: NaN is written as null
JsonNumber(x) == IF x.nan THEN [null |-> TRUE, n |-> 0] ELSE [null |-> FALSE, n |-> x.n]

JsonSlot(s) ==
    [slot |-> s.slot, material |-> s.material, color |-> s.color,
     remaining |-> JsonNumber(s.remaining)]

JsonUnit(u) ==
    [id |-> u.id, humidity |-> JsonNumber(u.humidity),
     slots |-> [i \in 1..Len(u.slots) |-> JsonSlot(u.slots[i])]]

\* body: JSON.stringify({status: currentStatus, ...})
Serialize(st) ==
    [st EXCEPT !.ams = [i \in 1..Len(st.ams) |-> JsonUnit(st.ams[i])]]

\* a cycle: where it stands, the body of its POST while that is in flight,
\* and whether one of its requests has failed
IdleCycle == [pc |-> "idle", body |-> <<>>, failed |-> FALSE]

\* the first cycle the sync timer has not started yet
FreeCycles == {c \in 1..MaxCycles : cycles[c].pc = "idle"}
NextCycle == CHOOSE c \in FreeCycles : \A d \in FreeCycles : c <= d

\* how a fetch can end
FetchOutcomes == {"ok", "notok", "neterr"}

\* as SyncPromise, without the catch: a network error rejects
SyncPromiseUncaught(outcome) == IF outcome = "neterr" THEN "rejected" ELSE "resolved"

\* the promise returned by syncWithCloud(): the try/catch turns every
\* outcome of the upload into a resolved promise
SyncPromise(outcome) == "resolved"

\* the promise returned by checkCommands(): as above
PollPromise(outcome) == "resolved"

\* the bodies a successful poll can carry: not JSON, no commands key, or a
\* list of commands
KindOrder == <<"pause", "resume", "stop", "refresh", "home">>
\* the n kinds that follow position s of KindOrder, cyclically
Window(s, n) == [i \in 1..n |-> KindOrder[((s + i - 2) % Len(KindOrder)) + 1]]
CommandLists == {Window(s, n) : s \in 1..Len(KindOrder), n \in 0..MaxCmdsPerPoll}
NoCommandData ==
    {[kind |-> "badjson", commands |-> <<>>], [kind |-> "nocommands", commands |-> <<>>],
     [kind |-> "commands", commands |-> <<>>]}
PollData ==
    {[kind |-> "badjson", commands |-> <<>>], [kind |-> "nocommands", commands |-> <<>>]}
    \cup {[kind |-> "commands", commands |-> l] : l \in CommandLists}

----------------------------------------------------------------------------
(* Inputs *)

\* a reconnectPeriod of 0 turns automatic reconnection off
reconnectPeriodOff == 0

\* reconnectPeriod: 5000 in the options of mqtt.connect
reconnectPeriod == 5000

GcodeInputs == {"", "RUNNING", "BOGUS"}

Tray(type, color, remain) == [tray_type |-> type, tray_color |-> color, remain |-> remain]
Unit(humidity, tray) == [humidity |-> humidity, tray |-> tray]

AmsNoArray == [tag |-> "noarray", units |-> <<>>]
AmsNonArray == [tag |-> "nonarray", units |-> <<>>]
AmsArray(units) == [tag |-> "array", units |-> units]

\* {ams: [{humidity: "40", tray: [{tray_type: "PLA", tray_color: "FF0000", remain: "80"}]}]}
AmsOneUnit == AmsArray(<<Unit(Str(<<"4", "0">>), <<Tray("PLA", "FF0000", Str(<<"8", "0">>))>>)>>)

\* two units, the first without humidity and with a tray that has no fields
AmsTwoUnits ==
    AmsArray(<<Unit(Undef, <<Tray("", "", Undef), Tray("PETG", "00FF00", Str(<<"5">>))>>),
               Unit(Str(<<"1", "5">>), <<>>)>>)

\* two units whose humidity and remain strings are not decimal numerals
AmsMalformed ==
    AmsArray(<<Unit(Str(<<"x">>), <<Tray("PLA", "FF0000", Str(<<"4", "x">>)),
                                    Tray("ABS", "0000FF", Str(<<" ", "7">>))>>),
               Unit(Str(<<"-">>), <<Tray("", "", Str(<<"9", "0">>))>>)>>)

\* a unit that reports five trays, followed by a unit with one tray
AmsOverfull ==
    AmsArray(<<Unit(Str(<<"4", "0">>), [s \in 1..5 |-> Tray("PLA", "FF0000", Str(<<"8", "0">>))]),
               Unit(Undef, <<Tray("PETG", "00FF00", Str(<<"5">>))>>)>>)

AmsInputs == {AmsNoArray, AmsNonArray, AmsArray(<<>>), AmsOneUnit, AmsTwoUnits,
              AmsMalformed, AmsOverfull}

\* the print object with the keys K: every numeric key carries n
MkPrint(K, n, g, a) ==
    [k \in K |-> CASE k = "gcode_state" -> g
                   [] k = "ams" -> a
                   [] OTHER -> n]

MergePrints ==
    {MkPrint(K, n, g, a) : K \in SUBSET PrintKeys, n \in 0..MaxNum,
                           g \in GcodeInputs, a \in AmsInputs}

MergePayloads == {Garbage, NoPrint} \cup {Report(p) : p \in MergePrints}

\* a snapshot left by earlier reports, every field away from its default
PriorStatus ==
    [online |-> TRUE, gcodeState |-> "PAUSE", printProgress |-> 50,
     printTimeRemaining |-> 540, currentLayer |-> 7, totalLayers |-> 9,
     nozzleTemp |-> 220, nozzleTargetTemp |-> 221, bedTemp |-> 60,
     bedTargetTemp |-> 61, chamberTemp |-> 35, filamentUsed |-> 12,
     ams |-> ParseAms(<<>>, MkPrint({"ams"}, 0, "", AmsTwoUnits))]

MergeSnapshots == {[InitialStatus EXCEPT !.online = TRUE], PriorStatus}

\* the messages the printer sends in Spec
SessionPrints ==
    {MkPrint({"gcode_state", "mc_percent"}, 1, "RUNNING", AmsNoArray),
     MkPrint({"layer_num"}, 1, "", AmsNoArray),
     MkPrint({"mc_remaining_time", "ams"}, 1, "", AmsOneUnit)}

SessionPayloads == {Garbage, NoPrint} \cup {Report(p) : p \in SessionPrints}

----------------------------------------------------------------------------
(* Initial state: the module has been loaded, main() has not run *)

Init ==
    /\ alive = "loaded"
    /\ conn = "none"
    /\ connected = FALSE
    /\ linkErr = FALSE
    /\ sub = "none"
    /\ subPushes = 0
    /\ currentStatus = InitialStatus
    /\ pre = InitialStatus
    /\ payload = NoPayload
    /\ applied = 0
    /\ cycles = [c \in 1..MaxCycles |-> IdleCycle]
    /\ published = <<>>
    /\ dropped = {}

sessionVars == <<conn, connected, linkErr, sub, subPushes>>
reportVars == <<pre, payload, applied>>
cloudVars == <<cycles, dropped>>

----------------------------------------------------------------------------
(* Process lifecycle *)

\* main(): connectMqtt() and the two setInterval calls
Main ==
    /\ alive = "loaded"
    /\ alive' = "running"
    /\ conn' = "connecting"
    /\ UNCHANGED <<connected, linkErr, sub, subPushes, currentStatus, published>>
    /\ UNCHANGED <<reportVars, cloudVars>>

\* SIGINT / SIGTERM: mqttClient?.end(); process.exit(0).  The process and
\* all of its state are gone; no handler runs afterwards.
Shutdown ==
    /\ alive = "running"
    /\ alive' = "exited"
    /\ conn' = "none"
    /\ connected' = FALSE
    /\ linkErr' = FALSE
    /\ sub' = "none"
    /\ subPushes' = 0
    /\ currentStatus' = InitialStatus
    /\ pre' = InitialStatus
    /\ payload' = NoPayload
    /\ applied' = 0
    /\ cycles' = [c \in 1..MaxCycles |-> IdleCycle]
    /\ published' = <<>>
    /\ dropped' = {}

----------------------------------------------------------------------------
(* Device session *)

\* as MqttConnect, starting every connection from a fresh snapshot
MqttConnectResets ==
    /\ alive = "running"
    /\ conn = "connecting"
    /\ ~linkErr
    /\ conn' = "open"
    /\ connected' = TRUE
    /\ currentStatus' = [InitialStatus EXCEPT !.online = TRUE]
    /\ sub' = "pending"
    /\ subPushes' = 0
    /\ UNCHANGED <<alive, linkErr, pre, payload, applied, cycles, dropped, published>>

\* mqttClient.on("connect", ...): online = true and subscribe to the report topic
MqttConnect ==
    /\ alive = "running"
    /\ conn = "connecting"
    /\ ~linkErr
    /\ conn' = "open"
    /\ connected' = TRUE
    /\ currentStatus' = [currentStatus EXCEPT !.online = TRUE]
    /\ sub' = "pending"
    /\ subPushes' = 0
    /\ UNCHANGED <<alive, linkErr, reportVars, cloudVars, published>>

\* as SubscribeCallback, asking for the full status whatever the outcome
SubscribeCallbackAlwaysRequests(err) ==
    /\ alive = "running"
    /\ connected
    /\ sub = "pending"
    /\ sub' = IF err THEN "failed" ELSE "ok"
    /\ published' = RequestFullStatus(published, connected, Origin("subscribe", 0, 0))
    /\ subPushes' = subPushes + (Len(published') - Len(published))
    /\ Len(published') <= MaxPublished
    /\ UNCHANGED <<alive, conn, connected, linkErr, currentStatus, pre, payload, applied,
                   cycles, dropped>>

\* the callback given to subscribe, called when the SUBACK arrives
SubscribeCallback(err) ==
    /\ alive = "running"
    /\ connected
    /\ sub = "pending"
    /\ IF err
       THEN /\ sub' = "failed"
            /\ UNCHANGED <<published, subPushes>>
       ELSE /\ sub' = "ok"
            /\ published' = RequestFullStatus(published, connected, Origin("subscribe", 0, 0))
            /\ subPushes' = subPushes + (Len(published') - Len(published))
            /\ Len(published') <= MaxPublished
    /\ UNCHANGED <<alive, conn, connected, linkErr, currentStatus, reportVars, cloudVars>>

\* as MessageEscapes, without the try/catch: the SyntaxError of JSON.parse
\* leaves the handler
MessageEscapesUncaught(p) == p.kind = "garbage"

\* whether an exception leaves the message handler: JSON.parse and
\* parseStatus run inside try/catch, so none does
MessageEscapes(p) == FALSE

\* mqttClient.on("message", ...); an exception that leaves an event handler
\* ends the process
MqttMessage(p) ==
    /\ alive = "running"
    /\ connected
    /\ applied < MaxMsgs
    /\ currentStatus' = MessageHandler(currentStatus, p)
    /\ pre' = currentStatus
    /\ payload' = p
    /\ applied' = applied + 1
    /\ alive' = IF MessageEscapes(p) THEN "crashed" ELSE alive
    /\ UNCHANGED <<sessionVars, cloudVars, published>>

\* mqttClient.on("error", ...): the error is logged
MqttError ==
    /\ alive = "running"
    /\ conn \in {"connecting", "open"}
    /\ ~linkErr
    /\ linkErr' = TRUE
    /\ UNCHANGED <<alive, conn, connected, sub, subPushes, currentStatus>>
    /\ UNCHANGED <<reportVars, cloudVars, published>>

\* as MqttClose, without the assignment to online
MqttCloseKeepsOnline ==
    /\ alive = "running"
    /\ conn \in {"connecting", "open"}
    /\ conn' = "backoff"
    /\ connected' = FALSE
    /\ linkErr' = FALSE
    /\ sub' = "none"
    /\ subPushes' = 0
    /\ UNCHANGED <<alive, currentStatus, pre, payload, applied, cycles, dropped, published>>

\* mqttClient.on("close", ...): online = false; the client has cleared
\* connected, failed a pending subscribe callback and armed its reconnect timer
MqttClose ==
    /\ alive = "running"
    /\ conn \in {"connecting", "open"}
    /\ conn' = "backoff"
    /\ connected' = FALSE
    /\ linkErr' = FALSE
    /\ sub' = "none"
    /\ subPushes' = 0
    /\ currentStatus' = [currentStatus EXCEPT !.online = FALSE]
    /\ UNCHANGED <<alive, reportVars, cloudVars, published>>

\* mqttClient.on("reconnect", ...): the reconnect timer fired and the client
\* starts a new attempt
MqttReconnect ==
    /\ alive = "running"
    /\ conn = "backoff"
    /\ reconnectPeriod > 0
    /\ conn' = "connecting"
    /\ UNCHANGED <<alive, connected, linkErr, sub, subPushes, currentStatus>>
    /\ UNCHANGED <<reportVars, cloudVars, published>>

\* setInterval(() => requestFullStatus(), 60000)
StatusTimer ==
    /\ alive = "running"
    /\ published' = RequestFullStatus(published, connected, Origin("timer", 0, 0))
    /\ Len(published') <= MaxPublished
    /\ UNCHANGED <<alive, sessionVars, currentStatus, reportVars, cloudVars>>

----------------------------------------------------------------------------
(* Cloud reconciliation loop *)

\* the sync setInterval fires: syncWithCloud() serializes the snapshot and
\* issues the POST
SyncTick ==
    /\ alive = "running"
    /\ FreeCycles # {}
    /\ cycles' = [cycles EXCEPT ![NextCycle] =
                     [pc |-> "upload", body |-> <<Serialize(currentStatus)>>,
                      failed |-> FALSE]]
    /\ UNCHANGED <<alive, sessionVars, currentStatus, reportVars, published, dropped>>

\* the POST of cycle c ends; syncWithCloud() returns and checkCommands()
\* issues the GET.  A rejected promise of the async timer callback is an
\* unhandled rejection, which ends the process.
UploadComplete(c, outcome) ==
    /\ alive = "running"
    /\ cycles[c].pc = "upload"
    /\ IF SyncPromise(outcome) = "resolved"
       THEN /\ cycles' = [cycles EXCEPT ![c] =
                             [pc |-> "poll", body |-> <<>>, failed |-> outcome # "ok"]]
            /\ alive' = alive
       ELSE /\ cycles' = [cycles EXCEPT ![c] =
                             [pc |-> "done", body |-> <<>>, failed |-> TRUE]]
            /\ alive' = "crashed"
    /\ UNCHANGED <<sessionVars, currentStatus, reportVars, published, dropped>>

\* the GET of cycle c ends: if (response.ok) the body is read next
PollResponse(c, outcome) ==
    /\ alive = "running"
    /\ cycles[c].pc = "poll"
    /\ cycles' = [cycles EXCEPT ![c].pc = IF outcome = "ok" THEN "json" ELSE "done",
                                ![c].failed = @ \/ outcome # "ok"]
    /\ alive' = IF PollPromise(outcome) = "resolved" THEN alive ELSE "crashed"
    /\ UNCHANGED <<sessionVars, currentStatus, reportVars, published, dropped>>

\* response.json() of cycle c ends and the commands are executed in a loop
PollJson(c, data) ==
    /\ alive = "running"
    /\ cycles[c].pc = "json"
    /\ cycles' = [cycles EXCEPT ![c].pc = "done",
                                ![c].failed = @ \/ data.kind = "badjson"]
    /\ published' = ExecuteAll(published, connected, data.commands, c, 1)
    /\ Len(published') <= MaxPublished
    /\ dropped' = IF connected THEN dropped
                  ELSE dropped \cup {[cycle |-> c, pos |-> i, type |-> data.commands[i]] :
                                         i \in 1..Len(data.commands)}
    /\ alive' = IF PollPromise(data.kind) = "resolved" THEN alive ELSE "crashed"
    /\ UNCHANGED <<sessionVars, currentStatus, reportVars>>

----------------------------------------------------------------------------
(* Specifications *)

\* the agent with a printer that reports and a control plane that has no
\* command pending
Next ==
    \/ Main
    \/ Shutdown
    \/ MqttConnect
    \/ \E err \in BOOLEAN : SubscribeCallback(err)
    \/ \E p \in SessionPayloads : MqttMessage(p)
    \/ MqttError
    \/ MqttClose
    \/ MqttReconnect
    \/ StatusTimer
    \/ SyncTick
    \/ \E c \in 1..MaxCycles, o \in FetchOutcomes : UploadComplete(c, o)
    \/ \E c \in 1..MaxCycles, o \in FetchOutcomes : PollResponse(c, o)
    \/ \E c \in 1..MaxCycles, d \in NoCommandData : PollJson(c, d)

Spec == Init /\ [][Next]_vars

\* the reconnect timer of the mqtt client fires once it is armed
SpecLive == Spec /\ WF_vars(MqttReconnect)

\* the agent with a control plane that issues commands and a printer that
\* sends no report
NextRelay ==
    \/ Main
    \/ Shutdown
    \/ MqttConnect
    \/ \E err \in BOOLEAN : SubscribeCallback(err)
    \/ MqttError
    \/ MqttClose
    \/ MqttReconnect
    \/ StatusTimer
    \/ SyncTick
    \/ \E c \in 1..MaxCycles, o \in FetchOutcomes : UploadComplete(c, o)
    \/ \E c \in 1..MaxCycles, o \in FetchOutcomes : PollResponse(c, o)
    \/ \E c \in 1..MaxCycles, d \in PollData : PollJson(c, d)

SpecRelay == Init /\ [][NextRelay]_vars

\* SpecRelay under an unreliable link that runs for ever: the link drops
\* again and again, the reconnect timer fires, a connection attempt succeeds
\* if attempts are made again and again, the sync timer fires and the cloud
\* answers every request
SpecRelayLive ==
    /\ SpecRelay
    /\ WF_vars(MqttReconnect)
    /\ WF_vars(MqttClose)
    /\ SF_vars(MqttConnect)
    /\ WF_vars(SyncTick)
    /\ WF_vars(\E c \in 1..MaxCycles, o \in FetchOutcomes : UploadComplete(c, o))
    /\ WF_vars(\E c \in 1..MaxCycles, o \in FetchOutcomes : PollResponse(c, o))
    /\ WF_vars(\E c \in 1..MaxCycles, d \in PollData : PollJson(c, d))

\* parseStatus alone: a connected session receives one payload, which is
\* applied to a snapshot up to MaxApply times
InitMerge ==
    /\ alive = "running"
    /\ conn = "open"
    /\ connected = TRUE
    /\ linkErr = FALSE
    /\ sub = "failed"
    /\ subPushes = 0
    /\ currentStatus \in MergeSnapshots
    /\ pre = currentStatus
    /\ payload \in MergePayloads
    /\ applied = 0
    /\ cycles = [c \in 1..MaxCycles |-> IdleCycle]
    /\ published = <<>>
    /\ dropped = {}

ApplyReport ==
    /\ applied < MaxApply
    /\ currentStatus' = MessageHandler(currentStatus, payload)
    /\ pre' = currentStatus
    /\ applied' = applied + 1
    /\ UNCHANGED <<alive, sessionVars, payload, cloudVars, published>>

NextMerge == ApplyReport

SpecMerge == InitMerge /\ [][NextMerge]_vars

----------------------------------------------------------------------------
(* Properties *)

\* positions of the published log that carry the command at (c, i)
AttemptsOf(c, i) ==
    {k \in DOMAIN published :
        published[k].src = "command" /\ published[k].cycle = c /\ published[k].pos = i}

\* C1 (SpecMerge): partial-update merge.  After parseStatus has handled a
\* report, every snapshot field whose key is absent from the report's print
\* object has the value it had before the call, whatever other keys the
\* report contains.
C1_PartialUpdate ==
    (applied >= 1 /\ payload.kind = "report") =>
        \A k \in PrintKeys \ DOMAIN payload.print :
            currentStatus[FieldOf(k)] = pre[FieldOf(k)]

\* a report with mc_percent and gcode_state only has been applied to a
\* snapshot whose other fields were away from their defaults
C1_Witness ==
    /\ applied = 1
    /\ payload.kind = "report"
    /\ DOMAIN payload.print = {"gcode_state", "mc_percent"}
    /\ pre = PriorStatus
    /\ currentStatus.printProgress # pre.printProgress
    /\ currentStatus.gcodeState = "RUNNING"
    /\ currentStatus.currentLayer = 7
    /\ currentStatus.ams = PriorStatus.ams

\* C2 (SpecRelay): offline drop.  A step in which the commands of a poll
\* response are executed while the session is not connected publishes
\* nothing and leaves the snapshot and the session unchanged.
C2_OfflineDrop ==
    [][\A c \in 1..MaxCycles :
          (cycles[c].pc = "json" /\ cycles'[c].pc = "done" /\ ~connected) =>
              /\ published' = published
              /\ currentStatus' = currentStatus
              /\ sessionVars' = sessionVars]_vars

\* two poll responses, with recognized kinds, refresh and an unknown kind,
\* have been executed while disconnected
C2_Witness ==
    /\ ~connected
    /\ \A t \in {"pause", "resume", "refresh", "home"} : \E d \in dropped : d.type = t

\* C3 (SpecRelay): at most one delivery attempt.  No command occurrence of a
\* poll response is published more than once, and one that was dropped
\* because the session was disconnected is never published.
C3_AtMostOnce ==
    /\ \A c \in 1..MaxCycles, i \in 1..MaxCmdsPerPoll : Cardinality(AttemptsOf(c, i)) <= 1
    /\ \A d \in dropped : AttemptsOf(d.cycle, d.pos) = {}

\* a command was dropped, the session is connected again and a later
\* command has been published
C3_Witness ==
    /\ connected
    /\ \E d \in dropped : d.type = "pause" /\ d.cycle = 1
    /\ AttemptsOf(2, 1) # {}

\* C4 (Spec): the snapshot's online flag is true exactly when the MQTT
\* client is connected.
C4_OnlineIffConnected == currentStatus.online = connected

\* the link dropped after a report had been received
C4_Witness ==
    /\ conn = "backoff"
    /\ applied >= 1
    /\ ~currentStatus.online

\* C5 (Spec): while the process runs, a step that changes the client's
\* connected flag sets online to the new value and changes no other snapshot
\* field, and the other fields change only in a step that handles an
\* inbound message.
C5_OnlyOnlineOnLinkChange ==
    [][alive' = "running" =>
          /\ (connected' # connected) =>
                 (currentStatus'.online = connected'
                      /\ NonOnline(currentStatus') = NonOnline(currentStatus))
          /\ (NonOnline(currentStatus') # NonOnline(currentStatus)) =>
                 (\E p \in SessionPayloads : MqttMessage(p))]_vars

\* the link dropped and the fields set by a report are still there
C5_Witness ==
    /\ conn = "backoff"
    /\ ~currentStatus.online
    /\ payload.kind = "report"
    /\ NonOnline(currentStatus) = NonOnline(ParseStatus(InitialStatus, payload.print))
    /\ NonOnline(currentStatus) # NonOnline(InitialStatus)

\* C6 (Spec): in a connection whose subscription succeeded the subscribe
\* callback has published exactly one pushall request, and otherwise none.
C6_OnePushallPerSubscription ==
    /\ sub = "ok" => subPushes = 1
    /\ sub # "ok" => subPushes = 0

\* the subscription succeeded although the link had already reported an error
C6_Witness ==
    /\ sub = "ok"
    /\ linkErr
    /\ \E k \in DOMAIN published : published[k] = Entry("pushall", Origin("subscribe", 0, 0))

\* the snapshot after the latest inbound message has been handled in full
AfterLatest == IF payload.kind = "report" THEN ParseStatus(pre, payload.print) ELSE pre

\* C7 (Spec): the body serialized when a cycle starts is the snapshot as it
\* was before the latest report or as it is after that report has been
\* applied in full (with the current online flag), and a body in flight
\* does not change.
C7_AtomicMerge ==
    [][\A c \in 1..MaxCycles :
          /\ (cycles[c].pc = "idle" /\ cycles'[c].pc = "upload") =>
                 \E s \in {pre, AfterLatest} :
                     cycles'[c].body = <<Serialize([s EXCEPT !.online = currentStatus.online])>>
          /\ (cycles[c].pc = "upload" /\ cycles'[c].pc = "upload") =>
                 cycles'[c].body = cycles[c].body]_vars

\* an upload in flight carries a report of two keys, both applied
C7_Witness ==
    \E c \in 1..MaxCycles :
        /\ cycles[c].pc = "upload"
        /\ payload.kind = "report"
        /\ DOMAIN payload.print = {"mc_remaining_time", "ams"}
        /\ cycles[c].body[1].printTimeRemaining = 60
        /\ Len(cycles[c].body[1].ams) = 1

\* the entries of a published log that come from one poll response appear
\* in the order of their positions in the response
InResponseOrder(pub) ==
    \A a \in DOMAIN pub, b \in DOMAIN pub :
        (a < b /\ pub[a].src = "command" /\ pub[b].src = "command"
               /\ pub[a].cycle = pub[b].cycle) => pub[a].pos < pub[b].pos

\* C8 (SpecRelay): order within a cycle.  The poll of a cycle is issued in
\* the step that completes the cycle's upload and never while the upload is
\* in flight, and the commands of a poll response are published in the
\* order of the response.
C8_CycleOrder ==
    [][\A c \in 1..MaxCycles :
          /\ (cycles[c].pc # "poll" /\ cycles'[c].pc = "poll") =>
                 (cycles[c].pc = "upload" /\ cycles[c].body # <<>>)
          /\ cycles'[c].pc \in {"poll", "json"} => cycles'[c].body = <<>>
          /\ InResponseOrder(published')]_vars

\* both commands of the response <<pause, resume>> of cycle 1 were published
C8_Witness ==
    /\ cycles[1].pc = "done"
    /\ \E a \in AttemptsOf(1, 1), b \in AttemptsOf(1, 2) :
           /\ a < b
           /\ published[a].command = "pause"
           /\ published[b].command = "resume"

\* C9 (SpecRelay): failures do not halt the loop.  No failed upload or poll
\* ends the process, and after a cycle with a failed request the sync timer
\* can start the next cycle.
C9_FailuresDoNotHalt ==
    /\ alive # "crashed"
    /\ \A c \in 1..MaxCycles :
           (cycles[c].failed /\ cycles[c].pc = "done" /\ alive = "running"
                /\ FreeCycles # {}) => ENABLED SyncTick

\* the first cycle failed, and the second one ran and has succeeded
C9_Witness ==
    /\ alive = "running"
    /\ cycles[1].pc = "done" /\ cycles[1].failed
    /\ cycles[2].pc = "done" /\ ~cycles[2].failed

\* C10 (SpecLive): whenever the session is disconnected and the process has
\* not been shut down, a new connection attempt follows.
C10_ReconnectFollows ==
    (conn = "backoff" /\ alive = "running") ~> (conn = "connecting" \/ alive # "running")

\* a new attempt is under way after a connection that had received a report
C10_Witness ==
    /\ conn = "connecting"
    /\ alive = "running"
    /\ applied >= 1

\* a report with an AMS array has been handled
AmsArrayApplied ==
    /\ applied >= 1
    /\ payload.kind = "report"
    /\ Has(payload.print, "ams")
    /\ payload.print["ams"].tag = "array"

\* C11 (SpecMerge): AMS replacement.  After a report with an AMS array, the
\* snapshot has one unit per element of the array, each derived from that
\* element, and nothing else, whatever the AMS state was before.
C11_AmsReplaced ==
    AmsArrayApplied =>
        LET units == payload.print["ams"].units
        IN  /\ Len(currentStatus.ams) = Len(units)
            /\ \A u \in 1..Len(units) : currentStatus.ams[u] = ParseUnit(units[u], u - 1)

\* a one-unit array has replaced a two-unit AMS state
C11_Witness ==
    /\ AmsArrayApplied
    /\ applied = 1
    /\ Len(pre.ams) = 2
    /\ payload.print["ams"] = AmsOneUnit
    /\ Len(currentStatus.ams) = 1
    /\ currentStatus.ams[1].humidity = Num(40)

\* C13 (SpecMerge): merge idempotence.  Handling the same report a second
\* time leaves the snapshot as the first handling left it.
C13_Idempotent == applied >= 2 => currentStatus = pre

\* a report with every key has been applied twice to a non-default snapshot
C13_Witness ==
    /\ applied = 2
    /\ payload.kind = "report"
    /\ DOMAIN payload.print = PrintKeys
    /\ payload.print["mc_percent"] = 1
    /\ payload.print["ams"] = AmsTwoUnits
    /\ currentStatus.printProgress = 1
    /\ currentStatus.bedTemp = 1

\* a string that is a decimal numeral: an optional sign and digits only
IsNumeral(v) ==
    /\ ~v.undef
    /\ LET t == IF v.str # <<>> /\ Head(v.str) \in {"-", "+"} THEN Tail(v.str) ELSE v.str
       IN  t # <<>> /\ \A i \in 1..Len(t) : IsDigit(t[i])

\* C14 (SpecMerge), as claimed: after a report with an AMS array, a humidity
\* or remain that is absent or is not a numeral gives 0 in the snapshot.
C14_MalformedIsZero ==
    AmsArrayApplied =>
        LET units == payload.print["ams"].units
        IN  \A u \in 1..Len(units) :
                /\ ~IsNumeral(units[u].humidity) => currentStatus.ams[u].humidity = Num(0)
                /\ \A t \in 1..Len(units[u].tray) :
                       ~IsNumeral(units[u].tray[t].remain) =>
                           currentStatus.ams[u].slots[t].remaining = Num(0)

\* the print states of the data model
PrintStates == {"IDLE", "RUNNING", "PAUSED", "FAILED", "FINISHED", "UNKNOWN"}

\* a report with a non-empty gcode_state has been handled
GcodeApplied ==
    /\ applied >= 1
    /\ payload.kind = "report"
    /\ Has(payload.print, "gcode_state")
    /\ payload.print["gcode_state"] # ""

\* C15 (SpecMerge), as claimed: after a report with a gcode_state the print
\* state is one of the six print states, UNKNOWN when the string is not one
\* of the recognized ones.
C15_EnumOrUnknown ==
    GcodeApplied =>
        /\ currentStatus.gcodeState \in PrintStates
        /\ payload.print["gcode_state"] \notin PrintStates => currentStatus.gcodeState = "UNKNOWN"

\* C15 (SpecMerge), amended: the print state is the reported gcode_state
\* string itself when that is non-empty, recognized or not, and is
\* unchanged by a report without one.
C15_Verbatim ==
    (applied >= 1 /\ payload.kind = "report") =>
        currentStatus.gcodeState =
            IF Has(payload.print, "gcode_state") /\ payload.print["gcode_state"] # ""
            THEN payload.print["gcode_state"] ELSE pre.gcodeState

\* a report with an unrecognized gcode_state has been handled
C15_Witness ==
    /\ GcodeApplied
    /\ payload.print["gcode_state"] = "BOGUS"
    /\ currentStatus.gcodeState = "BOGUS"

\* C16 (SpecMerge), as claimed: currentLayer <= totalLayers whenever
\* totalLayers > 0.
C16_LayerWithinTotal ==
    currentStatus.totalLayers > 0 => currentStatus.currentLayer <= currentStatus.totalLayers

\* the positions <<unit, slot>> of the slots of a snapshot
SlotPositions(ams) ==
    UNION {{<<u, t>> : t \in 1..Len(ams[u].slots)} : u \in 1..Len(ams)}

SlotsUnique(ams) ==
    \A q \in SlotPositions(ams), r \in SlotPositions(ams) :
        q # r => ams[q[1]].slots[q[2]].slot # ams[r[1]].slots[r[2]].slot

\* C17 (SpecMerge), as claimed: after a report with an AMS array no two
\* slots of the snapshot have the same slot index.
C17_SlotsUnique == AmsArrayApplied => SlotsUnique(currentStatus.ams)

\* C17 (SpecMerge), amended: the slot at position s of the unit at position
\* u has index u*4+s, and no two slots share an index when no unit has more
\* than four trays.
C17_SlotAddressing ==
    AmsArrayApplied =>
        /\ \A q \in SlotPositions(currentStatus.ams) :
               currentStatus.ams[q[1]].slots[q[2]].slot = (q[1] - 1) * 4 + (q[2] - 1)
        /\ (\A u \in 1..Len(currentStatus.ams) : Len(currentStatus.ams[u].slots) <= 4)
               => SlotsUnique(currentStatus.ams)

\* two units with trays in both: the slot of the second unit has index 4
C17_Witness ==
    /\ AmsArrayApplied
    /\ payload.print["ams"] = AmsMalformed
    /\ Len(currentStatus.ams[1].slots) = 2
    /\ currentStatus.ams[2].slots[1].slot = 4

\* the kinds executeCommand has a case for
RecognizedKinds == {"pause", "resume", "stop", "refresh"}

\* the number of commands of a list that have a recognized kind
RecognizedIn(l) == Cardinality({i \in 1..Len(l) : l[i] \in RecognizedKinds})

\* C12 (SpecRelay): unknown-command safety.  A step that executes a poll
\* response publishes one message per command of a recognized kind when the
\* session is connected and none otherwise, so a command of another kind
\* publishes nothing, does not stop the commands after it and does not end
\* the process.
C12_UnknownPublishesNothing ==
    [][\A c \in 1..MaxCycles, l \in CommandLists :
          PollJson(c, [kind |-> "commands", commands |-> l]) =>
              /\ Len(published') = Len(published) + (IF connected THEN RecognizedIn(l) ELSE 0)
              /\ \A k \in DOMAIN published' : published'[k].command # "home"
              /\ alive' = "running"]_vars

\* the response <<home, pause>> of cycle 1 was executed while connected:
\* its second command was published and its first was not
C12_Witness ==
    /\ cycles[1].pc = "done"
    /\ \A d \in dropped : d.cycle # 1
    /\ AttemptsOf(1, 1) = {}
    /\ \E k \in AttemptsOf(1, 2) : published[k].command = "pause"

\* C18 (Spec): an undecodable message or one without a print object is
\* discarded.  The step that handles it leaves the snapshot and the session
\* as they were and the process running, and afterwards the handler still
\* takes the next message.
C18_NoiseDiscarded ==
    /\ [][(applied' = applied + 1 /\ payload'.kind \in {"garbage", "noprint"}) =>
              /\ currentStatus' = currentStatus
              /\ sessionVars' = sessionVars
              /\ alive' = "running"]_vars
    /\ []((payload.kind \in {"garbage", "noprint"} /\ alive = "running" /\ connected
              /\ applied < MaxMsgs)
            => ENABLED (\E p \in SessionPayloads : MqttMessage(p)))

\* a report was applied after a message that had left the snapshot untouched
C18_Witness ==
    /\ applied = 2
    /\ connected
    /\ payload.kind = "report"
    /\ NonOnline(pre) = NonOnline(InitialStatus)
    /\ NonOnline(currentStatus) # NonOnline(pre)

\* positions of a published log that carry the command at (c, i)
AttemptsIn(pub, c, i) ==
    {k \in DOMAIN pub : pub[k].src = "command" /\ pub[k].cycle = c /\ pub[k].pos = i}

\* C19 (SpecRelayLive), as claimed: a command of a recognized kind that was
\* executed while the link was down is published later, unless the process
\* ends.
C19_AtLeastOnce ==
    \A c \in 1..MaxCycles, i \in 1..MaxCmdsPerPoll :
        (\E d \in dropped : d.cycle = c /\ d.pos = i /\ d.type \in RecognizedKinds)
            ~> (AttemptsOf(c, i) # {} \/ alive # "running")

\* C19 (SpecRelayLive), amended: a command is published only in the step
\* that executes its poll response, only if the session is connected in that
\* step, and then once.
C19_OnlyWhenExecutedConnected ==
    [][alive' = "running" =>
          \A c \in 1..MaxCycles, i \in 1..MaxCmdsPerPoll :
              AttemptsIn(published', c, i) # AttemptsIn(published, c, i) =>
                  /\ cycles[c].pc = "json" /\ cycles'[c].pc = "done"
                  /\ connected
                  /\ AttemptsIn(published, c, i) = {}
                  /\ Cardinality(AttemptsIn(published', c, i)) = 1]_vars

\* a command was dropped in cycle 1, and the same kind was published in
\* cycle 2 once the session was connected
C19_Witness ==
    /\ connected
    /\ \E d \in dropped : d.cycle = 1 /\ d.pos = 1 /\ d.type = "stop"
    /\ \E k \in AttemptsOf(2, 1) : published[k].command = "stop"
    /\ AttemptsOf(1, 1) = {}

\* C20 (Spec): a subscription failure does not tear down the connection.
\* The step in which the subscribe callback reports an error leaves the
\* session connected and online and publishes nothing, and a failed
\* subscription is not attempted again before the connection closes.
C20_SubscribeFailureKeepsLink ==
    [][/\ (sub = "pending" /\ sub' = "failed") =>
              /\ connected' /\ conn' = "open"
              /\ currentStatus'.online
              /\ published' = published
              /\ subPushes' = 0
       /\ (sub = "failed" /\ sub' # "failed") => (sub' = "none" /\ ~connected')
       /\ (sub # "pending" /\ sub' = "pending") => (~connected /\ connected')]_vars

\* the subscription failed and a report still arrived on the open link
C20_Witness ==
    /\ sub = "failed"
    /\ connected
    /\ currentStatus.online
    /\ subPushes = 0
    /\ applied >= 1

====
